---- MODULE Spec2Model ----
(***************************************************************************)
(* elm-doc-preview: the documentation server (DocServer) and its build     *)
(* pipeline.  Two variants of the manifest-based server are modelled side  *)
(* by side: "ts" is lib/elm-doc-server.ts (onChange debounced by a 100 ms  *)
(* timer), "latest" is unnamed/part_000 (chokidar watcher, onChange runs   *)
(* its reaction at once, --debug keeps temporary files).  The single-socket *)
(* script cli.js is modelled by its own specification, SpecCli.            *)
(*                                                                         *)
(* Node runs one handler at a time.  The only long step is the compiler    *)
(* call (spawn.sync), which blocks the event loop: a build is therefore    *)
(* split in a start and an end, and between the two only the environment   *)
(* acts (files change, time passes); file events are queued and delivered  *)
(* once the server is idle again.                                          *)
(***************************************************************************)
EXTENDS Integers, Sequences, FiniteSets, TLC

\* ---------------------------------------------------------------- bounds
MaxClients == 2
MaxEvents == 2
MaxRequests == 1
MaxQueue == 2
MaxFiles == 2
MaxDecls == 1
MaxPart == 1
MaxPatch == 10
MaxDeps == 2
MaxModules == 2
MaxDirs == 2
MaxFrames == 3
MaxConnects == 3

\* ------------------------------------------------------ program constants
\* setTimeout(..., 100) in onChange
Delay == 100
\* the clock advances by half a debounce delay
Quantum == Delay \div 2
\* a gap is measured up to "more than Delay"
GapCap == Delay + Quantum

Clients == 1 .. MaxClients

Min(a, b) == IF a < b THEN a ELSE b
Max(a, b) == IF a > b THEN a ELSE b
Last(s) == s[Len(s)]

\* ------------------------------------------------------------- manifests
\* A name is the list of its "/"-separated segments; <<>> is an absent name,
\* "" an absent version, and dirs <<>> an absent source-directories field.
NullManifest == [type |-> "null", name |-> <<>>, version |-> "",
  summary |-> "", license |-> "", dirs |-> <<>>]
Unreadable == [type |-> "unreadable", name |-> <<>>, version |-> "",
  summary |-> "", license |-> "", dirs |-> <<>>]
PkgAB == [type |-> "package", name |-> <<"a", "b">>, version |-> "1.0.0",
  summary |-> "a package", license |-> "BSD-3-Clause", dirs |-> <<>>]
AppPlain == [type |-> "application", name |-> <<>>, version |-> "",
  summary |-> "", license |-> "", dirs |-> <<"src">>]
\* neither a package nor an application, and a name without "/"
OtherType == [type |-> "program", name |-> <<"pkg">>, version |-> "1.0.0",
  summary |-> "", license |-> "", dirs |-> <<>>]

\* what elm.json may hold on disk
DiskFiles == {PkgAB, AppPlain, OtherType, Unreadable}

\* ---------------------------------------------------------------- the load
\* the four fields completeApplication fills in, and the value that stands
\* for a field the object does not have
Fields == {"name", "version", "summary", "license"}
Absent(f) == IF f = "name" THEN <<>> ELSE ""
Has(o, f) == o[f] # Absent(f)

Defaults ==
  [name |-> <<"my", "application">>, version |-> "1.0.0",
   summary |-> "Elm application", license |-> "Fair"]

\* elm-application.json: absent, unparsable, or an object with some fields
NoOverride ==
  [state |-> "absent", name |-> <<>>, version |-> "", summary |-> "", license |-> ""]
BadOverride ==
  [state |-> "unparsable", name |-> <<>>, version |-> "", summary |-> "", license |-> ""]
OkOverrides ==
  [state : {"ok"}, name : {<<>>, <<"me", "app">>}, version : {"", "2.0.0"},
   summary : {"", "mine"}, license : {"", "MIT"}]
Overrides == {NoOverride, BadOverride} \cup OkOverrides

\* application manifests with any of the four fields already present
AppFiles ==
  [type : {"application"}, name : {<<>>, <<"x", "y">>}, version : {"", "0.1.0"},
   summary : {"", "base"}, license : {"", "GPL"}, dirs : {<<"src">>}]

\* Object.assign(manifest, elmApp)
assign(m, ov) ==
  [m EXCEPT !.name = IF Has(ov, "name") THEN ov.name ELSE @,
            !.version = IF Has(ov, "version") THEN ov.version ELSE @,
            !.summary = IF Has(ov, "summary") THEN ov.summary ELSE @,
            !.license = IF Has(ov, "license") THEN ov.license ELSE @]

\* if (!("name" in manifest)) manifest.name = "my/application", and so on
withDefaults(m) ==
  [m EXCEPT !.name = IF Has(m, "name") THEN @ ELSE Defaults.name,
            !.version = IF Has(m, "version") THEN @ ELSE Defaults.version,
            !.summary = IF Has(m, "summary") THEN @ ELSE Defaults.summary,
            !.license = IF Has(m, "license") THEN @ ELSE Defaults.license]

completeApplicationForceDefaults(m, ov) ==
  IF m.type # "application" THEN m
  ELSE [m EXCEPT !.name = Defaults.name, !.version = Defaults.version,
                 !.summary = Defaults.summary, !.license = Defaults.license]

completeApplicationStrict(m, ov) ==
  IF m.type # "application" THEN m
  ELSE IF ov.state = "unparsable" THEN NullManifest
  ELSE withDefaults(IF ov.state = "ok" THEN assign(m, ov) ELSE m)

completeApplication(m, ov) ==
  IF m.type # "application" THEN m
  ELSE withDefaults(IF ov.state = "ok" THEN assign(m, ov) ELSE m)

\* what completeApplication passes to error(): the override's parse failure
completeApplicationLog(m, ov) ==
  IF m.type = "application" /\ ov.state = "unparsable"
  THEN <<"error: elm-application.json">>
  ELSE <<>>

getManifestSyncKeepDefault(file, ov) ==
  IF file.type = "unreadable" THEN PkgAB ELSE completeApplication(file, ov)

getManifestSync(file, ov) ==
  IF file.type = "unreadable" THEN NullManifest ELSE completeApplication(file, ov)

\* `${manifest.name}/${manifest.version}`
fullname(m) == [name |-> m.name, version |-> m.version]

\* this.manifest && this.manifest.name && this.manifest.name.includes("/")
CanSend(m) == m.type # "null" /\ m.name # <<>> /\ Len(m.name) >= 2

\* const [author, project] = this.manifest.name.split("/", 2), and the version
Identity(m) == [author |-> m.name[1], project |-> m.name[2], version |-> m.version]

\* ------------------------------------------------------------------ paths
Paths == {"README.md", "elm.json", "src/Main.elm"}

EndsWithReadme(p) == p = "README.md"
EndsWithJson(p) == p = "elm.json"
EndsWithElm(p) == p = "src/Main.elm"

\* ------------------------------------------------------------ the watcher
\* a pattern: the directory it is relative to and the glob
Glob(d, g) == [dir |-> d, pat |-> g]

\* the glob list setupFilesWatcher builds from this.manifest
setupFilesWatcher(v, m) ==
  (IF v = "ts"
   THEN {Glob(".", "elm.json"), Glob(".", "elm-application.json"), Glob(".", "README.md")}
   ELSE {Glob(".", "elm*.json"), Glob(".", "README*.md")})
  \cup (IF m.type # "null" /\ m.dirs # <<>>
        THEN UNION {{Glob(m.dirs[i], "**/*.elm"), Glob(m.dirs[i], "../elm.json")} :
                      i \in DOMAIN m.dirs}
        ELSE IF m.type # "null" THEN {Glob("src", "**/*.elm")}
        ELSE {})

\* ------------------------------------------------------------- the build
\* What one compiler run and the file system around it do:
\*   error   the process could not be launched (build.error; stderr is null)
\*   stderr  "empty", a JSON report ("compile-errors" or "error"), or
\*           "garbage" (text that is no JSON, e.g. a compiler crash)
\*   docs    whether the compiler wrote the --docs file
\*   io      where the synthesis of an application fails: "ok" (nowhere),
\*           "elmStuff" (before the temporary directory exists), "manifest"
\*           (writing the synthetic elm.json, the directory exists)
Outcomes ==
  { [error |-> FALSE, stderr |-> "empty", docs |-> TRUE, io |-> "ok"],
    [error |-> FALSE, stderr |-> "compile-errors", docs |-> FALSE, io |-> "ok"],
    [error |-> FALSE, stderr |-> "error", docs |-> FALSE, io |-> "ok"],
    [error |-> FALSE, stderr |-> "garbage", docs |-> FALSE, io |-> "ok"],
    [error |-> FALSE, stderr |-> "empty", docs |-> FALSE, io |-> "ok"],
    [error |-> TRUE, stderr |-> "null", docs |-> FALSE, io |-> "ok"],
    [error |-> FALSE, stderr |-> "empty", docs |-> TRUE, io |-> "elmStuff"],
    [error |-> FALSE, stderr |-> "empty", docs |-> TRUE, io |-> "manifest"] }

\* JSON.parse(build.stderr.toString()) returns a value
StderrParses(o) == o.stderr \in {"compile-errors", "error"}

\* A call's result: thrown, or a value; and what it leaves on disk.
Thrown(file, dir) == [thrown |-> TRUE, value |-> "none", tmpFile |-> file, tmpDir |-> dir]
Value(v, file, dir) == [thrown |-> FALSE, value |-> v, tmpFile |-> file, tmpDir |-> dir]

ParsedDocsIgnoreFile(o) ==
  IF StderrParses(o) THEN o.stderr ELSE "empty"

\* the artifact buildPackageDocs ends with: the docs file if it parses, else
\* the report on stderr if it parses, else {}
ParsedDocs(o) ==
  IF o.docs THEN "docs"
  ELSE IF StderrParses(o) THEN o.stderr
  ELSE "empty"

\* Strings whose characters matter are sequences of characters.
\* path.resolve(dir), and the path of the one error of a compile-errors
\* report: a file of the build directory
BuildDir == <<"/", "p">>
ErrorPath == BuildDir \o <<"/", "M">>

\* s.substring(n)
substring(s, n) == SubSeq(s, n + 1, Len(s))

\* the paths of the errors in the report buildPackageDocs returns:
\* error.path = error.path.substring(buildDir.length + 1) in "latest", the
\* parsed report as it is in "ts"
errorPaths(v, o) ==
  IF o.docs \/ o.stderr # "compile-errors" THEN <<>>
  ELSE IF v = "latest" THEN <<substring(ErrorPath, Len(BuildDir) + 1)>>
  ELSE <<ErrorPath>>

buildPackageDocs(v, o, clean) ==
  IF v = "latest" /\ ~o.error /\ o.stderr # "empty" /\ ~StderrParses(o)
  THEN \* elmErrors(JSON.parse(build.stderr.toString())) throws
       Thrown("left", "none")
  ELSE Value(ParsedDocs(o), IF v = "ts" \/ clean THEN "removed" ELSE "left", "none")

buildApplicationDocs(v, o, clean) ==
  IF o.io = "elmStuff" THEN Thrown("none", "none")
  ELSE IF o.io = "manifest" THEN Thrown("none", "left")
  ELSE LET r == buildPackageDocs(v, o, clean)
       IN IF r.thrown THEN Thrown(r.tmpFile, "left")
          ELSE Value(r.value, r.tmpFile,
                     IF v = "ts" \/ clean THEN "removed" ELSE "left")

\* the branch buildDocs takes inside its try
BuildBranch(v, m, o, clean) ==
  IF m.type = "package" THEN buildPackageDocs(v, [o EXCEPT !.io = "ok"], clean)
  ELSE IF m.type = "application" THEN buildApplicationDocs(v, o, clean)
  ELSE Value("empty", "none", "none")

buildDocsNoCatch(v, m, o, clean) == BuildBranch(v, m, o, clean)

buildDocs(v, m, o, clean) ==
  LET r == BuildBranch(v, m, o, clean)
  IN IF r.thrown THEN Value("empty", r.tmpFile, r.tmpDir) ELSE r

\* ---------------------------------------------------------- the synthesis
\* A source file is a list of lines.  A line is a module header ("module"
\* or "port module"), a comment, a single-line port declaration (cmd, sub:
\* whether the text after the name includes "Cmd", "Sub"), or other code.
\* In the output a "stub" line is the declaration without `port` followed
\* by `name = always <body>`.
Line(k, c, s, b) == [kind |-> k, cmd |-> c, sub |-> s, body |-> b]
Comment == Line("comment", FALSE, FALSE, "")
Code == Line("code", FALSE, FALSE, "")
PortDecls == {Line("port", c, s, "") : c \in BOOLEAN, s \in BOOLEAN}
Headers == {Line("module", FALSE, FALSE, ""), Line("port module", FALSE, FALSE, "")}

RECURSIVE SeqsUpTo(_, _)
SeqsUpTo(S, n) ==
  IF n = 0 THEN {<<>>}
  ELSE LET shorter == SeqsUpTo(S, n - 1)
       IN shorter \cup {Append(q, x) : q \in shorter, x \in S}

\* the header, possibly after a comment, then up to MaxDecls lines
Sources ==
  {pre \o <<h>> \o body : pre \in {<<>>, <<Comment>>}, h \in Headers,
                          body \in SeqsUpTo(PortDecls \cup {Code}, MaxDecls)}

\* fails: reading, writing or linking this file throws
SourceFiles == [lines : Sources, fails : BOOLEAN]

\* module.match(/^port +module /) !== null
IsPortModule(lines) == lines # <<>> /\ lines[1].kind = "port module"

stubLineStubAll(l) ==
  IF l.kind = "port module" THEN [l EXCEPT !.kind = "module"]
  ELSE IF l.kind = "port" /\ l.sub THEN [l EXCEPT !.kind = "stub", !.body = "Sub.none"]
  ELSE IF l.kind = "port" THEN [l EXCEPT !.kind = "stub", !.body = "Cmd.none"]
  ELSE l

\* the callback of module.replace(/^port +([^ :]+)([^\n]+)$/gm, ...), and a
\* line the pattern does not match
stubLine(l) ==
  IF l.kind = "port module" THEN [l EXCEPT !.kind = "module"]
  ELSE IF l.kind = "port" /\ l.sub THEN [l EXCEPT !.kind = "stub", !.body = "Sub.none"]
  ELSE IF l.kind = "port" /\ l.cmd THEN [l EXCEPT !.kind = "stub", !.body = "Cmd.none"]
  ELSE l

\* warning("unmatched", match)
Unmatched(l) == l.kind = "port" /\ ~l.sub /\ ~l.cmd

\* what the forEach body of importModules does with one file: how the file
\* reaches the synthetic project, its lines there, and what is logged
importModule(f) ==
  IF f.fails
  THEN [how |-> "skipped", lines |-> <<>>, logged |-> <<"error">>]
  ELSE IF IsPortModule(f.lines)
  THEN [how |-> "written",
        lines |-> [i \in DOMAIN f.lines |-> stubLine(f.lines[i])],
        logged |-> [i \in 1 .. Cardinality({j \in DOMAIN f.lines : Unmatched(f.lines[j])})
                      |-> "warning"]]
  ELSE [how |-> "linked", lines |-> f.lines, logged |-> <<>>]

RECURSIVE importModulesStopAtError(_)
importModulesStopAtError(files) ==
  IF files = <<>> \/ Head(files).fails THEN <<>>
  ELSE <<importModule(Head(files))>> \o importModulesStopAtError(Tail(files))

\* globSync("**/*.elm", {cwd: srcDir}).forEach(...), over all source directories
importModules(files) == [i \in DOMAIN files |-> importModule(files[i])]

\* --------------------------------------------------------------- versions
\* A version string is the list of its "."-separated parts, a part the list
\* of its decimal digits.
RECURSIVE ToDigits(_)
ToDigits(n) == IF n < 10 THEN <<n>> ELSE Append(ToDigits(n \div 10), n % 10)

\* parseInt of a digit string
RECURSIVE parseInt(_)
parseInt(ds) ==
  IF Len(ds) = 1 THEN ds[1]
  ELSE 10 * parseInt(SubSeq(ds, 1, Len(ds) - 1)) + ds[Len(ds)]

Versions ==
  {<<ToDigits(a), ToDigits(b), ToDigits(c)>> :
     a \in 0 .. MaxPart, b \in 0 .. MaxPart, c \in 0 .. MaxPatch}
DepVersions == {<<ToDigits(1), ToDigits(0), ToDigits(c)>> : c \in 0 .. MaxPatch}

\* manifest.dependencies.direct: some of the dependencies, each at a version
Directs == UNION {[D -> DepVersions] : D \in SUBSET (1 .. MaxDeps)}

\* the text `${low} <= v < ${high}`, low and high being dotted versions
Constraint(low, high) == [low |-> low, high |-> high]

versionToConstraintSamePatch(version) ==
  Constraint(<<version[1], version[2], version[3]>>,
             <<version[1], version[2], ToDigits(parseInt(version[3]))>>)

versionToConstraint(version) ==
  LET major == version[1]
      minor == version[2]
      patch == version[3]
      nextPatch == parseInt(patch) + 1
  IN Constraint(<<major, minor, patch>>, <<major, minor, ToDigits(nextPatch)>>)

RECURSIVE Flatten(_)
Flatten(ss) == IF ss = <<>> THEN <<>> ELSE Head(ss) \o Flatten(Tail(ss))

\* An exposed-modules field: absent, a list of module names, or a map from
\* categories to lists (value: the lists, in the order of Object.values).
Modules == {"A", "B"}
ModuleLists == SeqsUpTo(Modules, MaxModules)
NoExposed == [form |-> "absent", value |-> <<>>]
ListExposed == [form : {"list"}, value : ModuleLists]
MapExposed ==
  [form : {"map"}, value : SeqsUpTo({l \in ModuleLists : Len(l) <= 1}, MaxModules)]
Exposed == {NoExposed} \cup ListExposed \cup MapExposed

\* An array the code holds: its elements, and whether it is the very array
\* of the application manifest (own) or one made by concat.
Held(own, val) == [own |-> own, val |-> val]

\* getExposedModules: the list itself when given a list, the categories'
\* lists concatenated when given a map, [] otherwise
getExposedModules(e) ==
  IF e.form = "list" THEN Held(TRUE, e.value)
  ELSE IF e.form = "map" THEN Held(FALSE, Flatten(e.value))
  ELSE Held(FALSE, <<>>)

\* What path.resolve(src, "../elm.json") holds for one source directory:
\* nothing, text that is no manifest, an application, or a package.
VendoredPackages ==
  { [type |-> "package", exposed |-> e] :
      e \in {NoExposed, [form |-> "list", value |-> <<"C">>],
             [form |-> "map", value |-> <<<<"C">>, <<"D">>>>]} }
Vendored ==
  {[type |-> "absent", exposed |-> NoExposed],
   [type |-> "null", exposed |-> NoExposed],
   [type |-> "application", exposed |-> NoExposed]} \cup VendoredPackages

foldPush(acc, v) ==
  IF v.type = "package"
  THEN [acc EXCEPT !.val = @ \o getExposedModules(v.exposed).val,
                   !.mine = IF acc.own THEN @ \o getExposedModules(v.exposed).val ELSE @]
  ELSE acc

foldDropOwn(acc, v) ==
  IF v.type = "package"
  THEN [acc EXCEPT !.own = FALSE, !.val = getExposedModules(v.exposed).val]
  ELSE acc

\* one turn of the forEach over source-directories: the modules of a
\* package found one level above are appended by concat, into a new array
fold(acc, v) ==
  IF v.type = "package"
  THEN [acc EXCEPT !.own = FALSE, !.val = @ \o getExposedModules(v.exposed).val]
  ELSE acc

RECURSIVE foldAll(_, _)
foldAll(acc, vs) == IF vs = <<>> THEN acc ELSE foldAll(fold(acc, Head(vs)), Tail(vs))

\* the exposed modules of the synthetic manifest, and the application's own
\* array (mine) as the loop leaves it
exposedModules(app, dirs) ==
  LET start == getExposedModules(app.exposed)
      first == [own |-> start.own, val |-> start.val, mine |-> app.exposed.value]
  IN foldAll(first, [i \in 1 .. Len(dirs) |-> app.vendored[i]])

syntheticManifestAllDeps(m, app, dirs) ==
  [type |-> "package",
   name |-> m.name, summary |-> m.summary, license |-> m.license, version |-> m.version,
   exposed |-> exposedModules(app, dirs).val,
   elmVersion |-> versionToConstraint(app.elmVersion),
   dependencies |->
     [d \in DOMAIN app.direct \cup DOMAIN app.indirect |->
        versionToConstraint(IF d \in DOMAIN app.direct THEN app.direct[d]
                            ELSE app.indirect[d])],
   tests |-> app.tests]

\* the package manifest buildApplicationDocs derives from the application's
syntheticManifest(m, app, dirs) ==
  [type |-> "package",
   name |-> m.name, summary |-> m.summary, license |-> m.license, version |-> m.version,
   exposed |-> exposedModules(app, dirs).val,
   elmVersion |-> versionToConstraint(app.elmVersion),
   dependencies |-> [d \in DOMAIN app.direct |-> versionToConstraint(app.direct[d])],
   tests |-> <<>>]

\* the application's exposed-modules field once buildApplicationDocs is done
exposedAfter(app, dirs) ==
  IF app.exposed.form = "list"
  THEN [app.exposed EXCEPT !.value = exposedModules(app, dirs).mine]
  ELSE app.exposed

\* ------------------------------------------------------- the compiler lookup
\* What one `--version` run does: error (the process could not be launched;
\* status and streams are null), else an exit status (0, another number, or
\* null after a signal: NullStatus), whether stderr holds text, and stdout, a string of
\* characters.
V0191 == <<"0", ".", "1", "9", ".", "1">>
V0190 == <<"0", ".", "1", "9", ".", "0">>
V0180 == <<"0", ".", "1", "8", ".", "0">>
Stdouts == {V0191 \o <<"\n">>, <<" ">> \o V0190 \o <<"\n">>, V0180 \o <<"\n">>, <<>>}
NullStatus == 0 - 1
LaunchError == [error |-> TRUE, status |-> NullStatus, stderr |-> "null", stdout |-> <<>>]
ExecResults ==
  {LaunchError} \cup
  [error : {FALSE}, status : {0, 2, NullStatus}, stderr : {"empty", "text"}, stdout : Stdouts]

Whitespace == {" ", "\n"}

\* s.trim()
RECURSIVE trim(_)
trim(s) ==
  IF s = <<>> THEN s
  ELSE IF Head(s) \in Whitespace THEN trim(Tail(s))
  ELSE IF s[Len(s)] \in Whitespace THEN trim(SubSeq(s, 1, Len(s) - 1))
  ELSE s

\* s.startsWith(prefix)
startsWith(s, prefix) == Len(s) >= Len(prefix) /\ SubSeq(s, 1, Len(prefix)) = prefix

\* exec.error || exec.status !== 0 || exec.stderr.toString().length > 0
MediatedFails(exec) == exec.error \/ exec.status # 0 \/ exec.stderr # "empty"

\* process.exit(1) in fatal; process.exit(exec.status ? exec.status : 1)
Exits(n) == [returned |-> "none", version |-> <<>>, exit |-> n]

getElmAnyVersion(t) ==
  LET elm_ == IF MediatedFails(t.npx) THEN "direct" ELSE "npx"
      exec == IF MediatedFails(t.npx) THEN t.direct ELSE t.npx
  IN IF exec.error THEN Exits(1)
     ELSE IF exec.status # 0 THEN Exits(IF exec.status = NullStatus THEN 1 ELSE exec.status)
     ELSE [returned |-> elm_, version |-> trim(exec.stdout), exit |-> 0]

\* getElm: the invoker and version it returns, or the status it exits with
getElm(t) ==
  LET elm_ == IF MediatedFails(t.npx) THEN "direct" ELSE "npx"
      exec == IF MediatedFails(t.npx) THEN t.direct ELSE t.npx
  IN IF exec.error THEN Exits(1)
     ELSE IF exec.status # 0 THEN Exits(IF exec.status = NullStatus THEN 1 ELSE exec.status)
     ELSE IF ~startsWith(trim(exec.stdout), <<"0", ".", "1", "9">>) THEN Exits(1)
     ELSE [returned |-> elm_, version |-> trim(exec.stdout), exit |-> 0]

\* ------------------------------------------------------------------ state
VARIABLES
  variant,      \* "ts" (lib/elm-doc-server.ts) or "latest" (unnamed/part_000);
                \* "push1", "push2": unnamed/part_001, unnamed/part_002
  debug,        \* options.debug: buildDocs is called with clean = !debug
  reload,       \* options.reload: whether the files watcher is set up
  elm,          \* what `elm --version` does at startup: "ok" or "missing"
  pc,           \* "start", "idle", "building", "http", "exited"
  exitStatus,   \* process.exit's status once pc = "exited"
  disk,         \* what elm.json holds
  manifest,     \* this.manifest
  watching,     \* setupFilesWatcher has run
  timeout,      \* this.timeout and the closure it runs
  queue,        \* file events the watcher has not yet delivered
  conn,         \* each socket's readyState ("none": not in wss.clients)
  sent,         \* per socket, the messages client.send was called with since
                \* the last reaction began (or since it connected)
  todo,         \* what the running handler does after the build returns
  cur,          \* the build in flight: who started it, and its number
  lastBuild,    \* what the last buildDocs call returned and left on disk
  ws,           \* cli.js: the socket `ws` refers to (0: null)
  globs,        \* the patterns the files watcher was created with
  override,     \* what elm-application.json holds
  source,       \* an application project handed to the synthesis
  synth,        \* what the synthesis made of it
  tool,         \* getElm: what each `--version` run does, and what getElm returned
  output,       \* make: the file name given, and what was written to it
  page,         \* the browser page: frames received, and what each port was sent
  logged,       \* what the last load or synthesis logged (error, warning)
  hist          \* history: counters and the last reaction, for the properties

vars == <<variant, debug, reload, elm, pc, exitStatus, disk, manifest, watching,
          timeout, queue, conn, sent, todo, cur, lastBuild, ws, globs, override,
          source, synth, logged, tool, output, page, hist>>

\* the state of the load and of the synthesis, which the server leaves alone
aside == <<override, source, synth, logged>>

\* the state of the compiler lookup, of the one-shot build and of the page
apart == <<tool, output, page>>

ElmVersion == <<ToDigits(0), ToDigits(19), ToDigits(1)>>
NoSource ==
  [files |-> <<>>, elmVersion |-> ElmVersion, direct |-> <<>>, indirect |-> <<>>,
   tests |-> <<>>, exposed |-> NoExposed, vendored |-> <<>>]
NoSynth ==
  [done |-> FALSE, files |-> <<>>, pkg |-> syntheticManifest(NullManifest, NoSource, <<>>),
   written |-> FALSE, built |-> FALSE]

NoTool == [npx |-> LaunchError, direct |-> LaunchError, returned |-> "none", version |-> <<>>]
NoOutput == [filename |-> "", written |-> FALSE]
NoPage == [frames |-> <<>>, ports |-> <<>>]

NoTimer == [armed |-> FALSE, filepath |-> "", remaining |-> 0]
NoBuild == [by |-> "none", id |-> 0]
MaxBuilds == MaxEvents + MaxRequests

NoLastBuild ==
  [n |-> 0, type |-> "null", clean |-> TRUE, value |-> "none", thrown |-> FALSE,
   tmpDir |-> "none", tmpFile |-> "none", stderr |-> "empty", docs |-> FALSE,
   paths |-> <<>>]

InitHist ==
  [ changes |-> 0,          \* onChange calls
    far |-> 0,              \* onChange calls more than Delay after the previous one
    sawEq |-> FALSE,        \* some onChange call came exactly Delay after the previous
    gap |-> GapCap,         \* time since the previous onChange call, capped
    arrived |-> "",         \* the path of the last onChange call
    first |-> "",           \* the path of the first onChange call since the last reaction
    opened |-> "",          \* the first path that had arrived when the last reaction began
    audience |-> {},        \* the sockets that were open when the last reaction began
                            \* and have not reconnected since
    tags |-> {},            \* builds during which the events since the last reaction occurred
    reactions |-> 0,        \* reactions run (timer callbacks in "ts")
    path |-> "",            \* the path the last reaction classified
    closed |-> "",          \* the last path that had arrived when the last reaction began
    reloaded |-> "none",    \* the last reaction's manifest reload: none, ok, failed
    before |-> NullManifest,\* this.manifest when the last reaction began
    events |-> 0,           \* file events the environment has produced
    requests |-> 0,         \* docs.json requests served
    started |-> 0,          \* builds started
    inflight |-> 0,         \* builds started and not yet returned
    followups |-> [b \in 1 .. MaxBuilds |-> 0],
                            \* per build, the rebuilds run for events that occurred during it
    joinedAfter |-> [c \in Clients |-> FALSE],
                            \* the socket connected after some rebuild had completed
    bootFailed |-> FALSE,   \* the constructor's getManifestSync returned null
    owed |-> "no",          \* "waiting": a source or manifest file has changed and no
                            \* rebuild has started since; "building": one has, and
                            \* its docs are not yet broadcast
    connects |-> 0,         \* connections accepted by the pushing variants
    timers |-> 0 ]          \* timers set by setTimeout, neither cleared nor fired

Init ==
  /\ variant \in {"ts", "latest"}
  /\ debug = FALSE
  /\ reload \in (IF variant = "latest" THEN BOOLEAN ELSE {TRUE})
  /\ elm \in {"ok", "missing"}
  /\ pc = "start"
  /\ exitStatus = 0
  /\ disk \in DiskFiles
  /\ manifest = NullManifest
  /\ watching = FALSE
  /\ timeout = NoTimer
  /\ queue = <<>>
  /\ conn = [c \in Clients |-> "none"]
  /\ sent = [c \in Clients |-> <<>>]
  /\ todo = <<>>
  /\ cur = NoBuild
  /\ lastBuild = NoLastBuild
  /\ ws = 0
  /\ globs = {}
  /\ override = NoOverride
  /\ source = NoSource
  /\ synth = NoSynth
  /\ logged = <<>>
  /\ tool = NoTool
  /\ output = NoOutput
  /\ page = NoPage
  /\ hist = InitHist

\* ------------------------------------------------------------- broadcast
MsgStale(t, m, k) ==
  [type |-> t, cycle |-> k, id |-> Identity(IF CanSend(manifest) THEN manifest ELSE m)]

\* the message a send function builds from this.manifest: its type and the
\* author, project and version it carries (cycle: the reaction it belongs to)
Msg(t, m, k) == [type |-> t, cycle |-> k, id |-> Identity(m)]

\* this.wss.clients.forEach(client => { if (client.readyState === ws.OPEN) client.send(...) })
broadcast(log, msg) ==
  [c \in Clients |-> IF conn[c] = "OPEN" THEN Append(log[c], msg) ELSE log[c]]

\* ------------------------------------------------------ the change reaction
onChangeStepsDocsFirst(v, p) ==
  IF v = "ts"
  THEN IF EndsWithReadme(p) THEN <<"sendReadme">>
       ELSE IF EndsWithJson(p) THEN <<"reload", "sendDocs", "sendManifest">>
       ELSE IF EndsWithElm(p) THEN <<"sendDocs">>
       ELSE <<>>
  ELSE IF p = "README.md" THEN <<"sendReadme">>
       ELSE IF EndsWithJson(p) THEN <<"reload", "sendDocs", "sendManifest">>
       ELSE <<"sendDocs">>

onChangeStepsAlwaysReload(v, p) ==
  IF v = "ts"
  THEN IF EndsWithReadme(p) THEN <<"sendReadme">>
       ELSE IF EndsWithJson(p) \/ EndsWithElm(p) THEN <<"reload", "sendManifest", "sendDocs">>
       ELSE <<>>
  ELSE IF p = "README.md" THEN <<"sendReadme">>
       ELSE <<"reload", "sendManifest", "sendDocs">>

\* what the body of onChange (in "ts": of its timer callback) calls, in order
onChangeSteps(v, p) ==
  IF v = "ts"
  THEN IF EndsWithReadme(p) THEN <<"sendReadme">>
       ELSE IF EndsWithJson(p) THEN <<"reload", "sendManifest", "sendDocs">>
       ELSE IF EndsWithElm(p) THEN <<"sendDocs">>
       ELSE <<>>
  ELSE IF p = "README.md" THEN <<"sendReadme">>
       ELSE IF EndsWithJson(p) THEN <<"reload", "sendManifest", "sendDocs">>
       ELSE <<"sendDocs">>

\* Runs the calls of a handler up to the compiler call of sendDocs, which
\* blocks: st.building says a build was started, st.todo what follows it.
RECURSIVE Exec(_, _, _)
Exec(st, steps, k) ==
  IF steps = <<>> THEN st
  ELSE LET s == Head(steps)
           rest == Tail(steps)
       IN CASE s = "reload" ->
                 LET m == getManifestSync(disk, override)
                 IN Exec([st EXCEPT !.manifest = m,
                                    !.reloaded = IF m = NullManifest THEN "failed" ELSE "ok"],
                         rest, k)
            [] s = "sendReadme" ->
                 Exec([st EXCEPT !.sent = IF CanSend(st.manifest)
                                          THEN broadcast(@, Msg("readme", st.manifest, k))
                                          ELSE @],
                      rest, k)
            [] s = "sendManifest" ->
                 Exec([st EXCEPT !.sent = IF CanSend(st.manifest)
                                          THEN broadcast(@, Msg("manifest", st.manifest, k))
                                          ELSE @],
                      rest, k)
            [] s = "sendDocs" ->
                 IF CanSend(st.manifest)
                 THEN [st EXCEPT !.building = TRUE, !.todo = rest]
                 ELSE Exec(st, rest, k)
            [] OTHER -> Exec(st, rest, k)

Bump(f, bs) == [b \in DOMAIN f |-> IF b \in bs THEN f[b] + 1 ELSE f[b]]

\* The reaction to a changed path: the timer callback of "ts", the body of
\* onChange in "latest".  h is the history up to it.
React(h, p) ==
  LET k == h.reactions + 1
      st == Exec([manifest |-> manifest, sent |-> [c \in Clients |-> <<>>],
                  building |-> FALSE, todo |-> <<>>, reloaded |-> "none"],
                 onChangeSteps(variant, p), k)
  IN /\ manifest' = st.manifest
     /\ sent' = st.sent
     /\ todo' = st.todo
     /\ pc' = IF st.building THEN "building" ELSE "idle"
     /\ cur' = IF st.building THEN [by |-> "change", id |-> h.started + 1] ELSE NoBuild
     /\ hist' = [h EXCEPT
                   !.reactions = k,
                   !.path = p,
                   !.closed = h.arrived,
                   !.opened = h.first,
                   !.first = "",
                   !.audience = {c \in Clients : conn[c] = "OPEN"},
                   !.tags = {},
                   !.reloaded = st.reloaded,
                   !.before = manifest,
                   !.started = IF st.building THEN @ + 1 ELSE @,
                   !.inflight = IF st.building THEN @ + 1 ELSE @,
                   !.owed = IF st.building /\ @ = "waiting" THEN "building" ELSE @,
                   !.followups = IF st.building THEN Bump(@, h.tags) ELSE @]

\* history of an onChange call: its gap to the previous call
Arrived(h, p, during) ==
  [h EXCEPT !.changes = @ + 1,
            !.far = IF h.changes > 0 /\ h.gap > Delay THEN @ + 1 ELSE @,
            !.sawEq = @ \/ (h.changes > 0 /\ h.gap = Delay),
            !.gap = 0,
            !.arrived = p,
            !.first = IF @ = "" THEN p ELSE @,
            !.tags = @ \cup (IF during = 0 THEN {} ELSE {during})]

onChangeKeepFirst(p) ==
  IF timeout.armed
  THEN [armed |-> TRUE, filepath |-> timeout.filepath, remaining |-> Delay]
  ELSE [armed |-> TRUE, filepath |-> p, remaining |-> Delay]

onChangeNoDelay(p) == [armed |-> TRUE, filepath |-> p, remaining |-> 0]

\* "ts": clearTimeout(this.timeout); this.timeout = setTimeout(closure over filepath, 100)
onChange(p) == [armed |-> TRUE, filepath |-> p, remaining |-> Delay]

clearTimeoutSkipped(t, n) == n

\* if (this.timeout) clearTimeout(this.timeout): the timers left of n
clearTimeout(t, n) == IF t.armed THEN n - 1 ELSE n

TimerDue == timeout.armed /\ timeout.remaining = 0

\* The watcher calls onChange with the next queued event.  A timer that is
\* due runs first: Node runs expired timers before it polls for I/O.
Deliver ==
  /\ pc = "idle"
  /\ queue # <<>>
  /\ ~TimerDue
  /\ LET e == Head(queue)
         h == Arrived(hist, e.path, e.during)
     IN /\ queue' = Tail(queue)
        /\ IF variant = "ts"
           THEN /\ timeout' = onChange(e.path)
                /\ hist' = [h EXCEPT !.timers = clearTimeout(timeout, @) + 1]
                /\ UNCHANGED <<pc, manifest, sent, todo, cur>>
           ELSE /\ React(h, e.path)
                /\ UNCHANGED timeout
  /\ UNCHANGED <<variant, debug, reload, elm, exitStatus, disk, watching, conn, lastBuild, ws,
                 globs, aside, apart>>

\* "ts": the timer callback: this.timeout = null, then the reaction
Fire ==
  /\ pc = "idle"
  /\ TimerDue
  /\ timeout' = NoTimer
  /\ React([hist EXCEPT !.timers = @ - 1], timeout.filepath)
  /\ UNCHANGED <<variant, debug, reload, elm, exitStatus, disk, watching, queue, conn,
                 lastBuild, ws,
                 globs, aside, apart>>

\* sendDocs, after the compiler call: buildDocs has returned, `docs` is
\* broadcast, and the handler runs to its end (or to its next build)
BuildEnd ==
  /\ pc = "building"
  /\ LET k == hist.reactions
         st == Exec([manifest |-> manifest,
                     sent |-> broadcast(sent, Msg("docs", manifest, k)),
                     building |-> FALSE, todo |-> <<>>, reloaded |-> hist.reloaded],
                    todo, k)
     IN /\ sent' = st.sent
        /\ manifest' = st.manifest
        /\ todo' = st.todo
        /\ pc' = IF st.building THEN "building" ELSE "idle"
        /\ cur' = IF st.building THEN [by |-> "change", id |-> hist.started + 1] ELSE NoBuild
        /\ hist' = [hist EXCEPT
                      !.reloaded = st.reloaded,
                      !.owed = IF @ = "building" THEN "no" ELSE @,
                      !.started = IF st.building THEN @ + 1 ELSE @,
                      !.inflight = IF st.building THEN @ ELSE @ - 1]
  /\ UNCHANGED <<variant, debug, reload, elm, exitStatus, disk, watching, timeout, queue,
                 conn, lastBuild, ws,
                 globs, aside, apart>>

\* GET /packages/:author/:project/:version/docs.json
HttpDocs ==
  /\ pc = "idle"
  /\ queue = <<>>
  /\ hist.requests < MaxRequests
  /\ \E req \in {fullname(completeApplication(f, override)) : f \in DiskFiles \ {Unreadable}} :
       IF manifest.type # "null" /\ fullname(manifest) = req
       THEN \* res.json(buildDocs(this.manifest, ".", this.elm, !debug, verbose))
            /\ pc' = "http"
            /\ cur' = [by |-> "http", id |-> hist.started + 1]
            /\ hist' = [hist EXCEPT !.requests = @ + 1, !.started = @ + 1,
                                    !.inflight = @ + 1]
       ELSE \* res.sendFile(<cache>/docs.json)
            /\ hist' = [hist EXCEPT !.requests = @ + 1]
            /\ UNCHANGED <<pc, cur>>
  /\ UNCHANGED <<variant, debug, reload, elm, exitStatus, disk, manifest, watching, timeout,
                 queue, conn, sent, todo, lastBuild, ws,
                 globs, aside, apart>>

HttpEnd ==
  /\ pc = "http"
  /\ pc' = "idle"
  /\ cur' = NoBuild
  /\ hist' = [hist EXCEPT !.inflight = @ - 1]
  /\ UNCHANGED <<variant, debug, reload, elm, exitStatus, disk, manifest, watching, timeout,
                 queue, conn, sent, todo, lastBuild, ws,
                 globs, aside, apart>>

\* ------------------------------------------------------------ construction
ConstructFatal ==
  /\ pc = "start"
  /\ IF elm # "ok" \/ getManifestSync(disk, override) = NullManifest
     THEN /\ pc' = "exited"
          /\ exitStatus' = 1
          /\ hist' = [hist EXCEPT !.bootFailed = (elm = "ok")]
          /\ UNCHANGED <<manifest, watching, globs>>
     ELSE /\ manifest' = getManifestSync(disk, override)
          /\ watching' = (variant = "ts" \/ reload)
          /\ globs' = IF variant = "ts" \/ reload
                      THEN setupFilesWatcher(variant, getManifestSync(disk, override))
                      ELSE {}
          /\ pc' = "idle"
          /\ UNCHANGED <<exitStatus, hist>>
  /\ UNCHANGED <<variant, debug, reload, elm, disk, timeout, queue, conn, sent, todo, cur,
                 lastBuild, ws, aside, apart>>

\* new DocServer(options): getElm, getManifestSync, setupWebServer, and
\* setupFilesWatcher if a manifest was loaded (and, in "latest", options.reload)
Construct ==
  /\ pc = "start"
  /\ IF elm # "ok"
     THEN \* getElm: fatal(`cannot run 'elm --version' ...`)
          /\ pc' = "exited"
          /\ exitStatus' = 1
          /\ UNCHANGED <<manifest, watching, globs, hist>>
     ELSE LET m == getManifestSync(disk, override)
          IN /\ manifest' = m
             /\ watching' = (m # NullManifest /\ (variant = "ts" \/ reload))
             /\ globs' = IF m # NullManifest /\ (variant = "ts" \/ reload)
                         THEN setupFilesWatcher(variant, m)
                         ELSE {}
             /\ pc' = "idle"
             /\ hist' = [hist EXCEPT !.bootFailed = (m = NullManifest)]
             /\ UNCHANGED exitStatus
  /\ UNCHANGED <<variant, debug, reload, elm, disk, timeout, queue, conn, sent, todo, cur,
                 lastBuild, ws, aside, apart>>

\* ------------------------------------------------------------- environment
Running == pc \in {"idle", "building", "http"}
During == IF pc \in {"building", "http"} THEN cur.id ELSE 0

\* elm.json is rewritten; the watcher reports it
WriteManifest ==
  /\ Running
  /\ watching
  /\ hist.events < MaxEvents
  /\ Len(queue) < MaxQueue
  /\ \E f \in DiskFiles \ {disk} : disk' = f
  /\ queue' = Append(queue, [path |-> "elm.json", during |-> During])
  /\ hist' = [hist EXCEPT !.events = @ + 1, !.owed = "waiting"]
  /\ UNCHANGED <<variant, debug, reload, elm, pc, exitStatus, manifest, watching, timeout,
                 conn, sent, todo, cur, lastBuild, ws,
                 globs, aside, apart>>

\* another watched file is written, added or deleted
Touch ==
  /\ Running
  /\ watching
  /\ hist.events < MaxEvents
  /\ Len(queue) < MaxQueue
  /\ \E p \in Paths \ {"elm.json"} :
       /\ queue' = Append(queue, [path |-> p, during |-> During])
       /\ hist' = [hist EXCEPT !.events = @ + 1, !.owed = IF EndsWithReadme(p) THEN @ ELSE "waiting"]
  /\ UNCHANGED <<variant, debug, reload, elm, pc, exitStatus, disk, manifest, watching,
                 timeout, conn, sent, todo, cur, lastBuild, ws,
                 globs, aside, apart>>

\* Time passes.  An idle server first delivers what is queued and runs a
\* timer that is due; a server blocked in a build lets time pass.
Tick ==
  /\ variant = "ts"
  /\ Running
  /\ pc = "idle" => (queue = <<>> /\ ~TimerDue)
  /\ (timeout.armed /\ timeout.remaining > 0) \/ (hist.changes > 0 /\ hist.gap < GapCap)
  /\ timeout' = IF timeout.armed
                THEN [timeout EXCEPT !.remaining = Max(0, @ - Quantum)]
                ELSE timeout
  /\ hist' = [hist EXCEPT !.gap = Min(GapCap, @ + Quantum)]
  /\ UNCHANGED <<variant, debug, reload, elm, pc, exitStatus, disk, manifest, watching,
                 queue, conn, sent, todo, cur, lastBuild, ws,
                 globs, aside, apart>>

\* ----------------------------------------------------------------- sockets
\* app.ws("/", (socket, req) => { info(...connected); socket.on("close", ...) }):
\* the socket joins wss.clients, nothing is sent
Connect ==
  /\ pc = "idle"
  /\ \E c \in Clients :
       /\ conn[c] = "none"
       /\ conn' = [conn EXCEPT ![c] = "OPEN"]
       /\ sent' = [sent EXCEPT ![c] = <<>>]
       /\ hist' = [hist EXCEPT !.joinedAfter[c] = (hist.started > 0),
                                !.audience = @ \ {c}]
  /\ UNCHANGED <<variant, debug, reload, elm, pc, exitStatus, disk, manifest, watching,
                 timeout, queue, todo, cur, lastBuild, ws,
                 globs, aside, apart>>

\* the closing handshake starts
Closing ==
  /\ pc = "idle"
  /\ \E c \in Clients :
       /\ conn[c] = "OPEN"
       /\ conn' = [conn EXCEPT ![c] = "CLOSING"]
  /\ UNCHANGED <<variant, debug, reload, elm, pc, exitStatus, disk, manifest, watching,
                 timeout, queue, sent, todo, cur, lastBuild, ws, hist,
                 globs, aside, apart>>

\* the socket is closed and leaves wss.clients
Closed ==
  /\ pc = "idle"
  /\ \E c \in Clients :
       /\ conn[c] = "CLOSING"
       /\ conn' = [conn EXCEPT ![c] = "none"]
  /\ UNCHANGED <<variant, debug, reload, elm, pc, exitStatus, disk, manifest, watching,
                 timeout, queue, sent, todo, cur, lastBuild, ws, hist,
                 globs, aside, apart>>

Next ==
  \/ Construct
  \/ WriteManifest
  \/ Touch
  \/ Tick
  \/ Deliver
  \/ Fire
  \/ BuildEnd
  \/ HttpDocs
  \/ HttpEnd
  \/ Connect
  \/ Closing
  \/ Closed

Spec == Init /\ [][Next]_vars

\* ------------------------------------------------- the build, on its own
\* buildDocs as its callers use it (sendDocs, the docs.json route, make):
\* called with this.manifest and clean = !options.debug, for every manifest
\* the server can hold and every outcome of the compiler run.
Built(r, m, o, clean) ==
  [n |-> 1, type |-> m.type, clean |-> clean, value |-> r.value, thrown |-> r.thrown,
   tmpDir |-> r.tmpDir, tmpFile |-> r.tmpFile, stderr |-> o.stderr, docs |-> o.docs,
   paths |-> IF r.value = "compile-errors" THEN errorPaths(variant, o) ELSE <<>>]

InitBuild ==
  /\ variant \in {"ts", "latest"}
  /\ debug \in (IF variant = "latest" THEN BOOLEAN ELSE {FALSE})
  /\ reload = FALSE
  /\ elm = "ok"
  /\ pc = "idle"
  /\ exitStatus = 0
  /\ disk \in DiskFiles \ {Unreadable}
  /\ manifest = getManifestSync(disk, NoOverride)
  /\ watching = FALSE
  /\ timeout = NoTimer
  /\ queue = <<>>
  /\ conn = [c \in Clients |-> "none"]
  /\ sent = [c \in Clients |-> <<>>]
  /\ todo = <<>>
  /\ cur = NoBuild
  /\ lastBuild = NoLastBuild
  /\ ws = 0
  /\ globs = {}
  /\ override = NoOverride
  /\ source = NoSource
  /\ synth = NoSynth
  /\ logged = <<>>
  /\ tool = NoTool
  /\ output = NoOutput
  /\ page = NoPage
  /\ hist = InitHist

\* one call of buildDocs, from its entry to its return
CallBuildDocs ==
  /\ \E o \in Outcomes :
       lastBuild' = Built(buildDocs(variant, manifest, o, variant = "ts" \/ ~debug),
                          manifest, o, variant = "ts" \/ ~debug)
  /\ UNCHANGED <<variant, debug, reload, elm, pc, exitStatus, disk, manifest, watching,
                 timeout, queue, conn, sent, todo, cur, ws, globs, aside, apart, hist>>

\* elm.json is replaced and loaded before the next call
LoadManifest ==
  /\ \E f \in DiskFiles \ {Unreadable, disk} :
       /\ disk' = f
       /\ manifest' = getManifestSync(f, override)
  /\ UNCHANGED <<variant, debug, reload, elm, pc, exitStatus, watching, timeout, queue,
                 conn, sent, todo, cur, lastBuild, ws, hist,
                 globs, aside, apart>>

NextBuild ==
  \/ CallBuildDocs
  \/ LoadManifest

SpecBuild == InitBuild /\ [][NextBuild]_vars

\* -------------------------------------------------- the load, on its own
\* getManifestSync for every primary manifest and every override file
RawFiles == DiskFiles \cup AppFiles

InitLoad ==
  /\ variant \in {"ts", "latest"}
  /\ debug = FALSE
  /\ reload = FALSE
  /\ elm = "ok"
  /\ pc = "start"
  /\ exitStatus = 0
  /\ disk \in RawFiles
  /\ manifest = NullManifest
  /\ watching = FALSE
  /\ timeout = NoTimer
  /\ queue = <<>>
  /\ conn = [c \in Clients |-> "none"]
  /\ sent = [c \in Clients |-> <<>>]
  /\ todo = <<>>
  /\ cur = NoBuild
  /\ lastBuild = NoLastBuild
  /\ ws = 0
  /\ globs = {}
  /\ override \in Overrides
  /\ source = NoSource
  /\ synth = NoSynth
  /\ logged = <<>>
  /\ tool = NoTool
  /\ output = NoOutput
  /\ page = NoPage
  /\ hist = InitHist

\* this.manifest = getManifestSync("elm.json")
Load ==
  /\ pc = "start"
  /\ pc' = "idle"
  /\ manifest' = getManifestSync(disk, override)
  /\ logged' = IF disk.type = "unreadable" THEN <<>> ELSE completeApplicationLog(disk, override)
  /\ UNCHANGED <<variant, debug, reload, elm, exitStatus, disk, watching, timeout, queue,
                 conn, sent, todo, cur, lastBuild, ws, globs, override, source, synth, apart,
                 hist>>

NextLoad == Load

SpecLoad == InitLoad /\ [][NextLoad]_vars

\* --------------------------------------------- the synthesis, on its own
\* buildApplicationDocs for every small application project, when nothing
\* but the import of single files fails
InitSynth ==
  /\ variant \in {"ts", "latest"}
  /\ debug = FALSE
  /\ reload = FALSE
  /\ elm = "ok"
  /\ pc = "idle"
  /\ exitStatus = 0
  /\ disk = AppPlain
  /\ manifest = getManifestSync(AppPlain, NoOverride)
  /\ watching = FALSE
  /\ timeout = NoTimer
  /\ queue = <<>>
  /\ conn = [c \in Clients |-> "none"]
  /\ sent = [c \in Clients |-> <<>>]
  /\ todo = <<>>
  /\ cur = NoBuild
  /\ lastBuild = NoLastBuild
  /\ ws = 0
  /\ globs = {}
  /\ override = NoOverride
  /\ source \in [files : SeqsUpTo(SourceFiles, MaxFiles) \ {<<>>},
                  elmVersion : {ElmVersion}, direct : {<<>>}, indirect : {<<>>},
                  tests : {<<>>}, exposed : {NoExposed},
                  vendored : {<<[type |-> "application", exposed |-> NoExposed]>>}]
  /\ synth = NoSynth
  /\ logged = <<>>
  /\ tool = NoTool
  /\ output = NoOutput
  /\ page = NoPage
  /\ hist = InitHist

\* buildApplicationDocs, from tmp.dirSync to the call of buildPackageDocs
Synthesize ==
  /\ ~synth.done
  /\ LET out == importModules(source.files)
     IN /\ synth' = [done |-> TRUE,
                     files |-> out,
                     pkg |-> syntheticManifest(manifest, source, manifest.dirs),
                     written |-> TRUE,
                     built |-> TRUE]
        /\ logged' = Flatten([i \in DOMAIN out |-> out[i].logged])
        /\ source' = [source EXCEPT !.exposed = exposedAfter(source, manifest.dirs)]
  /\ UNCHANGED <<variant, debug, reload, elm, pc, exitStatus, disk, manifest, watching,
                 timeout, queue, conn, sent, todo, cur, lastBuild, ws, globs, override,
                 apart, hist>>

NextSynth == Synthesize

SpecSynth == InitSynth /\ [][NextSynth]_vars

\* buildApplicationDocs for every elm-version and set of direct dependencies
InitPkg ==
  /\ variant \in {"ts", "latest"}
  /\ debug = FALSE
  /\ reload = FALSE
  /\ elm = "ok"
  /\ pc = "idle"
  /\ exitStatus = 0
  /\ disk = AppPlain
  /\ manifest = getManifestSync(AppPlain, NoOverride)
  /\ watching = FALSE
  /\ timeout = NoTimer
  /\ queue = <<>>
  /\ conn = [c \in Clients |-> "none"]
  /\ sent = [c \in Clients |-> <<>>]
  /\ todo = <<>>
  /\ cur = NoBuild
  /\ lastBuild = NoLastBuild
  /\ ws = 0
  /\ globs = {}
  /\ override = NoOverride
  /\ source \in [files : {<<>>}, elmVersion : Versions, direct : Directs,
                  indirect : {<<>>}, tests : {<<>>}, exposed : {NoExposed},
                  vendored : {<<[type |-> "application", exposed |-> NoExposed]>>}]
  /\ synth = NoSynth
  /\ logged = <<>>
  /\ tool = NoTool
  /\ output = NoOutput
  /\ page = NoPage
  /\ hist = InitHist

SpecPkg == InitPkg /\ [][NextSynth]_vars

\* buildApplicationDocs for every small application: its four completed
\* fields, its dependencies, its exposed modules and what lies one level
\* above each of its source directories
AppDirs == {<<>>} \cup {[i \in 1 .. n |-> IF i = 1 THEN "src" ELSE "vendor/src"] : n \in 1 .. MaxDirs}
AppProjects ==
  {getManifestSync([f EXCEPT !.dirs = d], NoOverride) :
     f \in {AppPlain, [AppPlain EXCEPT !.name = <<"x", "y">>, !.version = "0.1.0",
                                       !.summary = "base", !.license = "GPL"]},
     d \in AppDirs}
OneVersion == <<ToDigits(1), ToDigits(0), ToDigits(9)>>
AppDirects == UNION {[D -> {OneVersion}] : D \in SUBSET (1 .. MaxDeps)}
AppIndirects == {<<>>, [d \in {MaxDeps + 1} |-> OneVersion]}
AppTests == {<<>>, [d \in {MaxDeps + 2} |-> OneVersion]}

InitApp ==
  /\ variant \in {"ts", "latest"}
  /\ debug = FALSE
  /\ reload = FALSE
  /\ elm = "ok"
  /\ pc = "idle"
  /\ exitStatus = 0
  /\ disk = AppPlain
  /\ manifest \in AppProjects
  /\ watching = FALSE
  /\ timeout = NoTimer
  /\ queue = <<>>
  /\ conn = [c \in Clients |-> "none"]
  /\ sent = [c \in Clients |-> <<>>]
  /\ todo = <<>>
  /\ cur = NoBuild
  /\ lastBuild = NoLastBuild
  /\ ws = 0
  /\ globs = {}
  /\ override = NoOverride
  /\ source \in [files : {<<>>}, elmVersion : {ElmVersion}, direct : AppDirects,
                  indirect : AppIndirects, tests : AppTests, exposed : Exposed,
                  vendored : UNION {[1 .. n -> Vendored] : n \in 0 .. MaxDirs}]
  /\ Len(source.vendored) = Len(manifest.dirs)
  /\ synth = NoSynth
  /\ logged = <<>>
  /\ tool = NoTool
  /\ output = NoOutput
  /\ page = NoPage
  /\ hist = InitHist

SpecApp == InitApp /\ [][NextSynth]_vars

\* ------------------------------------------------ the one-shot build
\* make(filename) on a server just constructed, for every elm.json, either
\* file name and every outcome of the build and of the write
Filenames == {"/dev/null", "docs.json"}

InitMake ==
  /\ variant = "latest"
  /\ debug \in BOOLEAN
  /\ reload = FALSE
  /\ elm = "ok"
  /\ pc = "idle"
  /\ exitStatus = 0
  /\ disk \in DiskFiles \cup AppFiles
  /\ manifest = getManifestSync(disk, NoOverride)
  /\ watching = FALSE
  /\ timeout = NoTimer
  /\ queue = <<>>
  /\ conn = [c \in Clients |-> "none"]
  /\ sent = [c \in Clients |-> <<>>]
  /\ todo = <<>>
  /\ cur = NoBuild
  /\ lastBuild = NoLastBuild
  /\ ws = 0
  /\ globs = {}
  /\ override = NoOverride
  /\ source = NoSource
  /\ synth = NoSynth
  /\ logged = <<>>
  /\ tool = NoTool
  /\ output \in [filename : Filenames, written : {FALSE}]
  /\ page = NoPage
  /\ hist = InitHist

\* Array.isArray(docs) && docs.length > 0
IsDocs(value) == value = "docs"

\* make(filename): with a manifest, the build, the write (which may throw)
\* and process.exit(0), or fatal(); without one, nothing, and make returns
Make ==
  /\ pc = "idle"
  /\ IF manifest # NullManifest
     THEN \E o \in Outcomes, writable \in BOOLEAN :
            LET r == buildDocs(variant, manifest, o, ~debug)
            IN /\ lastBuild' = Built(r, manifest, o, ~debug)
               /\ pc' = "exited"
               /\ IF IsDocs(r.value)
                  THEN IF output.filename # "/dev/null"
                       THEN /\ output' = [output EXCEPT !.written = writable]
                            /\ exitStatus' = IF writable THEN 0 ELSE 1
                       ELSE /\ exitStatus' = 0
                            /\ UNCHANGED output
                  ELSE /\ exitStatus' = 1
                       /\ UNCHANGED output
     ELSE /\ pc' = "returned"
          /\ UNCHANGED <<exitStatus, lastBuild, output>>
  /\ UNCHANGED <<variant, debug, reload, elm, disk, manifest, watching, timeout, queue,
                 conn, sent, todo, cur, ws, globs, aside, tool, page, hist>>

SpecMake == InitMake /\ [][Make]_vars

\* ------------------------------------------------- the debounced server,
\* running: lib/elm-doc-server.ts, constructed on a package, with the event
\* loop's guarantees: a queued event is delivered, time passes, a timer
\* that is due fires, a build returns.  The events stop after MaxEvents.
InitLive ==
  /\ variant = "ts"
  /\ debug = FALSE
  /\ reload = TRUE
  /\ elm = "ok"
  /\ pc = "idle"
  /\ exitStatus = 0
  /\ disk = PkgAB
  /\ manifest = getManifestSync(PkgAB, NoOverride)
  /\ watching = TRUE
  /\ timeout = NoTimer
  /\ queue = <<>>
  /\ conn = [c \in Clients |-> "none"]
  /\ sent = [c \in Clients |-> <<>>]
  /\ todo = <<>>
  /\ cur = NoBuild
  /\ lastBuild = NoLastBuild
  /\ ws = 0
  /\ globs = setupFilesWatcher("ts", PkgAB)
  /\ override = NoOverride
  /\ source = NoSource
  /\ synth = NoSynth
  /\ logged = <<>>
  /\ tool = NoTool
  /\ output = NoOutput
  /\ page = NoPage
  /\ hist = InitHist

NextLive ==
  \/ WriteManifest
  \/ Touch
  \/ Tick
  \/ Deliver
  \/ Fire
  \/ BuildEnd
  \/ Connect

SpecLive ==
  /\ InitLive
  /\ [][NextLive]_vars
  /\ WF_vars(Deliver)
  /\ WF_vars(Tick)
  /\ WF_vars(Fire)
  /\ WF_vars(BuildEnd)

\* ------------------------------------------- the variants that push
\* unnamed/part_001 and unnamed/part_002 send the current state from their
\* connection handler, through the same send and broadcast as every other
\* message.
\* the send calls of the app.ws("/") handler, in order
snapshot(v, m) ==
  IF v = "push1"
  THEN IF m.type = "application"
       THEN <<"name", "readme", "deps">>
       ELSE <<"name", "compilation", "readme", "docs", "deps">>
  ELSE <<"compilation", "readme", "docs">>

\* a message and the connection whose handler sent it
Snap(t, c) == [type |-> t, cause |-> c]

\* this.send(type, data) for each type: broadcast to the clients open now
sendEach(log, open, msgs) ==
  [d \in Clients |-> IF open[d] = "OPEN" THEN log[d] \o msgs ELSE log[d]]

InitPush ==
  /\ variant \in {"push1", "push2"}
  /\ debug = FALSE
  /\ reload = TRUE
  /\ elm = "ok"
  /\ pc = "idle"
  /\ exitStatus = 0
  /\ disk \in (IF variant = "push1" THEN {PkgAB, AppPlain} ELSE {PkgAB})
  /\ manifest = disk
  /\ watching = TRUE
  /\ timeout = NoTimer
  /\ queue = <<>>
  /\ conn = [c \in Clients |-> "none"]
  /\ sent = [c \in Clients |-> <<>>]
  /\ todo = <<>>
  /\ cur = NoBuild
  /\ lastBuild = NoLastBuild
  /\ ws = 0
  /\ globs = {}
  /\ override = NoOverride
  /\ source = NoSource
  /\ synth = NoSynth
  /\ logged = <<>>
  /\ tool = NoTool
  /\ output = NoOutput
  /\ page = NoPage
  /\ hist = InitHist

\* a client connects: the handler of app.ws("/") runs with the new socket
\* open and in wss.clients
PushConnect ==
  /\ pc = "idle"
  /\ hist.connects < MaxConnects
  /\ \E c \in Clients :
       /\ conn[c] = "none"
       /\ conn' = [conn EXCEPT ![c] = "OPEN"]
       /\ LET types == snapshot(variant, manifest)
          IN sent' = sendEach([sent EXCEPT ![c] = <<>>], conn',
                              [i \in DOMAIN types |-> Snap(types[i], c)])
  /\ hist' = [hist EXCEPT !.connects = @ + 1]
  /\ UNCHANGED <<variant, debug, reload, elm, pc, exitStatus, disk, manifest, watching,
                 timeout, queue, todo, cur, lastBuild, ws, globs, aside, apart>>

NextPush ==
  \/ PushConnect
  \/ Closing
  \/ Closed

SpecPush == InitPush /\ [][NextPush]_vars

\* ------------------------------------------------------ the browser page
\* ws.onmessage of static/js/index.js.  `manifest` in console.log(manifest)
\* is no variable of the script: the statement throws a ReferenceError
\* unless the page happens to have a global of that name.
FrameTypes == {"readme", "manifest", "docs", "other"}

Delivery(port, t) == [port |-> port, type |-> t]

\* the ports one frame of type t is sent to, in order
onmessage(t, global) ==
  IF t = "readme" THEN <<Delivery("onReadme", t)>>
  ELSE IF t = "manifest"
  THEN IF global
       THEN \* no break: control falls through into case "docs"
            <<Delivery("onManifest", t), Delivery("onDocs", t)>>
       ELSE \* console.log(manifest) throws before any port is reached
            <<>>
  ELSE IF t = "docs" THEN <<Delivery("onDocs", t)>>
  ELSE <<>>

InitPage ==
  /\ variant = "latest"
  /\ debug = FALSE
  /\ reload = FALSE
  /\ elm = "ok"
  /\ pc = "idle"
  /\ exitStatus = 0
  /\ disk = PkgAB
  /\ manifest = PkgAB
  /\ watching = FALSE
  /\ timeout = NoTimer
  /\ queue = <<>>
  /\ conn = [c \in Clients |-> "none"]
  /\ sent = [c \in Clients |-> <<>>]
  /\ todo = <<>>
  /\ cur = NoBuild
  /\ lastBuild = NoLastBuild
  /\ ws = 0
  /\ globs = {}
  /\ override = NoOverride
  /\ source = NoSource
  /\ synth = NoSynth
  /\ logged = <<>>
  /\ tool = NoTool
  /\ output = NoOutput
  /\ page = NoPage
  /\ hist = InitHist

\* the socket delivers one frame and ws.onmessage runs
Receive ==
  /\ Len(page.frames) < MaxFrames
  /\ \E t \in FrameTypes, global \in BOOLEAN :
       page' = [frames |-> Append(page.frames, t),
                ports |-> page.ports \o onmessage(t, global)]
  /\ UNCHANGED <<variant, debug, reload, elm, pc, exitStatus, disk, manifest, watching,
                 timeout, queue, conn, sent, todo, cur, lastBuild, ws, globs, aside,
                 tool, output, hist>>

SpecPage == InitPage /\ [][Receive]_vars

\* ------------------------------------------------- the lookup, on its own
\* getElm for every pair of results of the two `--version` runs
InitElm ==
  /\ variant \in {"ts", "latest"}
  /\ debug = FALSE
  /\ reload = FALSE
  /\ elm = "ok"
  /\ pc = "start"
  /\ exitStatus = 0
  /\ disk = PkgAB
  /\ manifest = NullManifest
  /\ watching = FALSE
  /\ timeout = NoTimer
  /\ queue = <<>>
  /\ conn = [c \in Clients |-> "none"]
  /\ sent = [c \in Clients |-> <<>>]
  /\ todo = <<>>
  /\ cur = NoBuild
  /\ lastBuild = NoLastBuild
  /\ ws = 0
  /\ globs = {}
  /\ override = NoOverride
  /\ source = NoSource
  /\ synth = NoSynth
  /\ logged = <<>>
  /\ tool \in [npx : ExecResults, direct : ExecResults, returned : {"none"}, version : {<<>>}]
  /\ output = NoOutput
  /\ page = NoPage
  /\ hist = InitHist

\* [this.elm, this.elmVersion] = getElm()
GetElm ==
  /\ pc = "start"
  /\ LET r == getElm(tool)
     IN /\ tool' = [tool EXCEPT !.returned = r.returned, !.version = r.version]
        /\ pc' = IF r.returned = "none" THEN "exited" ELSE "found"
        /\ exitStatus' = r.exit
  /\ UNCHANGED <<variant, debug, reload, elm, disk, manifest, watching, timeout, queue,
                 conn, sent, todo, cur, lastBuild, ws, globs, aside, output, page, hist>>

SpecElm == InitElm /\ [][GetElm]_vars

\* ------------------------------------------------------------------ cli.js
\* The script keeps one global `ws`, the socket that connected last, and a
\* debounced onChange whose callback sends to it.
InitCli ==
  /\ variant = "cli"
  /\ debug = FALSE
  /\ reload = TRUE
  /\ elm = "ok"
  /\ pc = "idle"
  /\ exitStatus = 0
  /\ disk = PkgAB
  /\ manifest = PkgAB
  /\ watching = TRUE
  /\ timeout = NoTimer
  /\ queue = <<>>
  /\ conn = [c \in Clients |-> "none"]
  /\ sent = [c \in Clients |-> <<>>]
  /\ todo = <<>>
  /\ cur = NoBuild
  /\ lastBuild = NoLastBuild
  /\ ws = 0
  /\ globs = {}
  /\ override = NoOverride
  /\ source = NoSource
  /\ synth = NoSynth
  /\ logged = <<>>
  /\ tool = NoTool
  /\ output = NoOutput
  /\ page = NoPage
  /\ hist = InitHist

\* function send(type, data) { if (ws !== null) ws.send(JSON.stringify({type, data})) }
\* to is the value of `ws`; a socket that is not open is sent nothing
send(log, to, msg) ==
  IF to # 0 /\ conn[to] = "OPEN" THEN [log EXCEPT ![to] = Append(@, msg)] ELSE log

RECURSIVE sendAll(_, _, _)
sendAll(log, to, msgs) ==
  IF msgs = <<>> THEN log ELSE sendAll(send(log, to, Head(msgs)), to, Tail(msgs))

\* what the timer callback sends
cliSteps(p) ==
  IF EndsWithReadme(p) THEN <<"readme">> ELSE <<"compilation", "docs">>

\* app.ws("/", _ws => { ws = _ws; sendCompilation(buildReport); sendReadme(); sendDocs() })
CliConnect ==
  /\ pc = "idle"
  /\ \E c \in Clients :
       /\ conn[c] = "none"
       /\ conn' = [conn EXCEPT ![c] = "OPEN"]
       /\ ws' = c
       /\ sent' = [sent EXCEPT ![c] = <<Msg("compilation", manifest, 0),
                                        Msg("readme", manifest, 0),
                                        Msg("docs", manifest, 0)>>]
  /\ UNCHANGED <<variant, debug, reload, elm, pc, exitStatus, disk, manifest, watching,
                 timeout, queue, todo, cur, lastBuild, hist,
                 globs, aside, apart>>

\* a socket starts closing, or is closed; the script has no close handler
CliClose ==
  /\ pc = "idle"
  /\ \E c \in Clients :
       /\ conn[c] \in {"OPEN", "CLOSING"}
       /\ conn' = [conn EXCEPT ![c] = IF @ = "OPEN" THEN "CLOSING" ELSE "none"]
  /\ UNCHANGED <<variant, debug, reload, elm, pc, exitStatus, disk, manifest, watching,
                 timeout, queue, sent, todo, cur, lastBuild, ws, hist,
                 globs, aside, apart>>

\* watcher.on("change", onChange)
CliChange ==
  /\ pc = "idle"
  /\ hist.events < MaxEvents
  /\ ~TimerDue
  /\ \E p \in Paths \ {"elm.json"} :
       /\ timeout' = onChange(p)
       /\ hist' = [Arrived(hist, p, 0) EXCEPT !.events = @ + 1]
  /\ UNCHANGED <<variant, debug, reload, elm, pc, exitStatus, disk, manifest, watching,
                 queue, conn, sent, todo, cur, lastBuild, ws,
                 globs, aside, apart>>

CliTick ==
  /\ pc = "idle"
  /\ timeout.armed
  /\ timeout.remaining > 0
  /\ timeout' = [timeout EXCEPT !.remaining = Max(0, @ - Quantum)]
  /\ hist' = [hist EXCEPT !.gap = Min(GapCap, @ + Quantum)]
  /\ UNCHANGED <<variant, debug, reload, elm, pc, exitStatus, disk, manifest, watching,
                 queue, conn, sent, todo, cur, lastBuild, ws,
                 globs, aside, apart>>

\* The timer callback.  ws.send on a socket that is not open either throws
\* (the callback's exception ends the process) or drops the message,
\* depending on the ws release installed.
CliFire ==
  /\ pc = "idle"
  /\ TimerDue
  /\ timeout' = NoTimer
  /\ LET k == hist.reactions + 1
         types == cliSteps(timeout.filepath)
         msgs == [i \in DOMAIN types |-> Msg(types[i], manifest, k)]
     IN /\ sent' = sendAll([c \in Clients |-> <<>>], ws, msgs)
        /\ hist' = [hist EXCEPT !.reactions = k,
                                !.path = timeout.filepath,
                                !.closed = hist.arrived,
                                !.opened = hist.first,
                                !.first = "",
                                !.audience = {c \in Clients : conn[c] = "OPEN"}]
  /\ IF ws # 0 /\ conn[ws] # "OPEN"
     THEN \E throws \in BOOLEAN :
            /\ pc' = IF throws THEN "exited" ELSE "idle"
            /\ exitStatus' = IF throws THEN 1 ELSE 0
     ELSE UNCHANGED <<pc, exitStatus>>
  /\ UNCHANGED <<variant, debug, reload, elm, disk, manifest, watching, queue, conn, todo,
                 cur, lastBuild, ws,
                 globs, aside, apart>>

NextCli ==
  \/ CliConnect
  \/ CliClose
  \/ CliChange
  \/ CliTick
  \/ CliFire

SpecCli == InitCli /\ [][NextCli]_vars

\* ================================================================== claims

\* the messages of type t and cycle k in a log
Count(log, t, k) == Cardinality({i \in DOMAIN log : log[i].type = t /\ log[i].cycle = k})
Types(log) == {log[i].type : i \in DOMAIN log}

\* C1: in the debounced handler, onChange calls that each come less than the
\* delay after the previous one cause one reaction in all, and every call
\* that comes more than the delay after the previous one causes one more:
\* once the timer has run, N close calls have caused 1 reaction and N
\* separated calls N reactions (an armed timer is the reaction still to run).
C1_Coalescing ==
  (variant = "ts" /\ hist.changes >= 1 /\ ~hist.sawEq)
    => hist.reactions + (IF timeout.armed THEN 1 ELSE 0) = hist.far + 1

C1_Witness ==
  /\ variant = "ts"
  /\ hist.changes = 2
  /\ hist.far = 0
  /\ ~hist.sawEq
  /\ hist.reactions = 1
  /\ ~timeout.armed

\* C2: the reaction run by the timer classifies the path of the last
\* onChange call before it; the manifest is reloaded exactly when that last
\* path is a .json file, whatever the earlier paths of the window were.
C2_LastPath ==
  (variant = "ts" /\ hist.reactions > 0)
    => /\ hist.path = hist.closed
       /\ (hist.reloaded # "none") = EndsWithJson(hist.closed)

C2_Witness ==
  /\ variant = "ts"
  /\ hist.reactions > 0
  /\ hist.opened = "elm.json"
  /\ hist.path = "README.md"

\* C3: in a reaction to a manifest-file change, every client that has been
\* sent the cycle's `docs` message was sent the cycle's `manifest` message
\* earlier.
C3_ManifestBeforeDocs ==
  \A c \in Clients : \A i \in DOMAIN sent[c] :
    (hist.reloaded # "none" /\ sent[c][i].type = "docs")
      => \E j \in 1 .. (i - 1) :
           /\ sent[c][j].type = "manifest"
           /\ sent[c][j].cycle = sent[c][i].cycle

C3_Witness ==
  /\ hist.reloaded = "ok"
  /\ \E c \in Clients :
       /\ Len(sent[c]) = 2
       /\ sent[c][1].type = "manifest"
       /\ sent[c][2].type = "docs"
       /\ sent[c][1].cycle = sent[c][2].cycle

\* C4, as stated: at most one build is in flight, and the change events that
\* occur during one build are followed by one rebuild in all.
C4_OneFollowingRebuild ==
  /\ hist.inflight <= 1
  /\ \A b \in 1 .. MaxBuilds : hist.followups[b] <= 1

\* C5, as stated: a client that connected after a rebuild and is open has
\* been sent readme, manifest and docs.
C5_SnapshotOnConnect ==
  \A c \in Clients :
    (conn[c] = "OPEN" /\ hist.joinedAfter[c])
      => {"readme", "manifest", "docs"} \subseteq Types(sent[c])

\* C6, as stated: after a change reaction has sent its messages, every
\* client that was open then has each of them once, and no other client has
\* any.
C6_EveryOpenClientOnce ==
  hist.reactions > 0
    => \A c \in Clients : \A t \in {cliSteps(hist.path)[i] : i \in DOMAIN cliSteps(hist.path)} :
         Count(sent[c], t, hist.reactions) = (IF c \in hist.audience THEN 1 ELSE 0)

\* C7: buildDocs returns a value for every manifest and compiler outcome, no
\* exception reaches its caller, and when neither the docs file nor the
\* diagnostic stream parses the value is the empty artifact.
C7_NeverThrows ==
  lastBuild.n > 0
    => /\ ~lastBuild.thrown
       /\ lastBuild.value \in {"docs", "compile-errors", "error", "empty"}
       /\ (~lastBuild.docs /\ lastBuild.stderr \notin {"compile-errors", "error"})
            => lastBuild.value = "empty"

C7_Witness ==
  /\ lastBuild.n > 0
  /\ variant = "latest"
  /\ lastBuild.type = "application"
  /\ lastBuild.stderr = "garbage"
  /\ lastBuild.value = "empty"

\* C8, as stated: after a reaction whose manifest reload failed, the server
\* holds the manifest it held before the reaction.
C8_KeepsPreviousManifest ==
  hist.reloaded = "failed" => manifest = hist.before

\* C9, as stated: when the constructor cannot load the primary manifest the
\* process exits with a non-zero status.
C9_ExitsOnBadManifest ==
  (pc # "start" /\ hist.bootFailed) => (pc = "exited" /\ exitStatus # 0)

\* C9, amended: getManifestSync turns a read or parse failure into a null
\* manifest; a server constructed on it keeps running, without a manifest
\* and without a files watcher, and does not exit.
C9_ServesWithoutManifest ==
  (pc # "start" /\ hist.bootFailed)
    => /\ pc # "exited"
       /\ exitStatus = 0
       /\ manifest = NullManifest
       /\ ~watching

C9_Witness ==
  /\ hist.bootFailed
  /\ disk = Unreadable
  /\ pc = "idle"
  /\ \E c \in Clients : conn[c] = "OPEN"

\* C10, as stated: after buildDocs has returned for an application, the
\* temporary project directory is gone if clean is true and is still there
\* if clean is false.
C10_TmpDirRemoved ==
  (lastBuild.n > 0 /\ lastBuild.type = "application")
    => IF lastBuild.clean THEN lastBuild.tmpDir # "left" ELSE lastBuild.tmpDir # "removed"

\* C11, as stated: after a reaction has reloaded the manifest, the watcher's
\* patterns are the ones setupFilesWatcher derives from the manifest now held.
C11_WatcherFollowsManifest ==
  (watching /\ hist.reloaded = "ok") => globs = setupFilesWatcher(variant, manifest)

\* the types of the messages of a log, in order
TypesSeq(l) == [i \in DOMAIN l |-> l[i].type]

C13_DefaultsApplied ==
  (pc = "idle" /\ disk.type = "application") =>
    \A f \in Fields :
      LET given == IF override.state = "ok" /\ Has(override, f) THEN override[f]
                   ELSE disk[f]
      IN /\ Has(manifest, f)
         /\ manifest[f] = (IF given = Absent(f) THEN Defaults[f] ELSE given)

C13_Witness ==
  /\ pc = "idle"
  /\ disk.type = "application"
  /\ override.state = "ok"
  /\ disk.name = <<"x", "y">>
  /\ ~Has(override, "name")
  /\ ~Has(disk, "license")
  /\ ~Has(override, "license")
  /\ manifest.name = <<"x", "y">>
  /\ manifest.license = "Fair"

\* C14: when the override file exists and does not parse, the error is
\* logged and the manifest loaded is the primary one with only the defaults
\* added: every field the primary manifest has keeps its value.
C14_BadOverrideIgnored ==
  (pc = "idle" /\ disk.type = "application" /\ override.state = "unparsable") =>
    /\ logged # <<>>
    /\ manifest.type = "application"
    /\ manifest.dirs = disk.dirs
    /\ \A f \in Fields : manifest[f] = (IF Has(disk, f) THEN disk[f] ELSE Defaults[f])

C14_Witness ==
  /\ pc = "idle"
  /\ override.state = "unparsable"
  /\ disk.type = "application"
  /\ disk.version = "0.1.0"
  /\ manifest.version = "0.1.0"
  /\ manifest.summary = "Elm application"

\* C15: for a package, when the compiler has run, has left stderr empty and
\* has written the docs file, buildDocs returns the content of that file.
C15_DocsReturned ==
  (lastBuild.n > 0 /\ lastBuild.type = "package" /\ lastBuild.stderr = "empty"
     /\ lastBuild.docs)
    => (lastBuild.value = "docs" /\ ~lastBuild.thrown /\ lastBuild.paths = <<>>)

C15_Witness ==
  /\ lastBuild.n > 0
  /\ lastBuild.type = "package"
  /\ lastBuild.stderr = "empty"
  /\ lastBuild.docs
  /\ lastBuild.value = "docs"

\* C16, as stated: when the compiler reports compile-errors, the report
\* returned has every error's path relative to the build directory.
C16_PathsRelative ==
  (lastBuild.n > 0 /\ lastBuild.value = "compile-errors")
    => lastBuild.paths = <<substring(ErrorPath, Len(BuildDir) + 1)>>

\* the file says it is a port module
DeclaresPorts(f) == \E j \in DOMAIN f.lines : f.lines[j].kind = "port module"
CountOf(q, x) == Cardinality({i \in DOMAIN q : q[i] = x})

\* C17, as stated: in a port module copied into the synthetic project, every
\* port declaration that mentions Cmd has become a stub with the body
\* Cmd.none, and every one that mentions Sub a stub with the body Sub.none.
C17_PortsStubbed ==
  synth.done =>
    \A i \in DOMAIN source.files :
      LET f == source.files[i]
      IN (~f.fails /\ DeclaresPorts(f)) =>
           \A j \in DOMAIN f.lines :
             LET l == f.lines[j]
                 o == synth.files[i].lines[j]
             IN l.kind = "port" =>
                  /\ l.cmd => (o.kind = "stub" /\ o.body = "Cmd.none")
                  /\ l.sub => (o.kind = "stub" /\ o.body = "Sub.none")

\* C18, as stated: a port module with a port declaration that mentions
\* neither marker reaches the synthetic project with the lines of the
\* original, and a warning is logged.
C18_FileUnmodified ==
  synth.done =>
    \A i \in DOMAIN source.files :
      LET f == source.files[i]
      IN (~f.fails /\ IsPortModule(f.lines) /\ \E j \in DOMAIN f.lines : Unmatched(f.lines[j]))
           => (synth.files[i].lines = f.lines /\ CountOf(logged, "warning") > 0)

\* C18, amended: in a file that starts with `port module`, a port
\* declaration that mentions neither marker is left as it is and one
\* warning is logged for it, while the header is still rewritten to `module`
\* and the file is written, not linked.
C18_DeclarationKept ==
  synth.done =>
    /\ \A i \in DOMAIN source.files :
         LET f == source.files[i]
         IN (~f.fails /\ IsPortModule(f.lines)) =>
              /\ synth.files[i].how = "written"
              /\ synth.files[i].lines[1].kind = "module"
              /\ \A j \in DOMAIN f.lines :
                   Unmatched(f.lines[j]) => synth.files[i].lines[j] = f.lines[j]
    /\ CountOf(logged, "warning")
         = Cardinality({<<i, j>> \in (1 .. MaxFiles) \X (1 .. MaxDecls + 2) :
                          /\ i \in DOMAIN source.files
                          /\ ~source.files[i].fails
                          /\ IsPortModule(source.files[i].lines)
                          /\ j \in DOMAIN source.files[i].lines
                          /\ Unmatched(source.files[i].lines[j])})

C18_Witness ==
  /\ synth.done
  /\ Len(source.files) = 1
  /\ ~source.files[1].fails
  /\ IsPortModule(source.files[1].lines)
  /\ Len(source.files[1].lines) = 2
  /\ Unmatched(source.files[1].lines[2])
  /\ synth.files[1].lines[2].kind = "port"
  /\ logged = <<"warning">>

\* C19: a file whose import fails is logged and skipped, every other file is
\* still imported, and the synthetic manifest is still written and built.
C19_ImportContinues ==
  synth.done =>
    /\ Len(synth.files) = Len(source.files)
    /\ \A i \in DOMAIN source.files :
         IF source.files[i].fails
         THEN synth.files[i].how = "skipped"
         ELSE synth.files[i].how \in {"written", "linked"}
    /\ CountOf(logged, "error")
         = Cardinality({i \in DOMAIN source.files : source.files[i].fails})
    /\ synth.written
    /\ synth.built

C19_Witness ==
  /\ synth.done
  /\ Len(source.files) = 2
  /\ source.files[1].fails
  /\ ~source.files[2].fails
  /\ synth.files[1].how = "skipped"
  /\ synth.files[2].how = "linked"
  /\ synth.built

\* the number a dotted version's part stands for is written without a
\* leading zero
Canonical(ds) == Len(ds) = 1 \/ ds[1] # 0

\* v < MAJOR.MINOR.(PATCH+1) follows MAJOR.MINOR.PATCH <= v
IsExactRange(c, v) ==
  /\ c.low = v
  /\ c.high[1] = v[1]
  /\ c.high[2] = v[2]
  /\ Canonical(c.high[3])
  /\ parseInt(c.high[3]) = parseInt(v[3]) + 1

\* C20: versionToConstraint turns MAJOR.MINOR.PATCH into
\* "MAJOR.MINOR.PATCH <= v < MAJOR.MINOR.(PATCH+1)", and the synthetic
\* manifest holds that constraint for the elm version and for each direct
\* dependency.
C20_ExactRange ==
  /\ versionToConstraint(<<ToDigits(2), ToDigits(3), ToDigits(4)>>)
       = Constraint(<<<<2>>, <<3>>, <<4>>>>, <<<<2>>, <<3>>, <<5>>>>)
  /\ synth.done =>
       /\ IsExactRange(synth.pkg.elmVersion, source.elmVersion)
       /\ DOMAIN synth.pkg.dependencies = DOMAIN source.direct
       /\ \A d \in DOMAIN source.direct :
            IsExactRange(synth.pkg.dependencies[d], source.direct[d])

C20_Witness ==
  /\ synth.done
  /\ source.elmVersion = <<<<0>>, <<1>>, <<9>>>>
  /\ synth.pkg.elmVersion.high = <<<<0>>, <<1>>, <<1, 0>>>>
  /\ DOMAIN source.direct = 1 .. MaxDeps
  /\ \A d \in DOMAIN source.direct : synth.pkg.dependencies[d].low = source.direct[d]

\* C21: the synthetic manifest has type package, the application's name,
\* summary, license and version, no test dependencies, and exactly the
\* application's direct dependencies as the keys of its dependencies.
C21_SyntheticManifest ==
  synth.done =>
    /\ synth.written
    /\ synth.pkg.type = "package"
    /\ synth.pkg.name = manifest.name
    /\ synth.pkg.summary = manifest.summary
    /\ synth.pkg.license = manifest.license
    /\ synth.pkg.version = manifest.version
    /\ synth.pkg.tests = <<>>
    /\ DOMAIN synth.pkg.dependencies = DOMAIN source.direct

\* an application with direct, indirect and test dependencies was synthesized
C21_Witness ==
  /\ synth.done
  /\ manifest.name = <<"x", "y">>
  /\ DOMAIN source.direct = 1 .. MaxDeps
  /\ source.indirect # <<>>
  /\ source.tests # <<>>

\* the modules an exposed-modules field lists, in the order it lists them
Listed(e) ==
  IF e.form = "list" THEN e.value
  ELSE IF e.form = "map" THEN Flatten(e.value)
  ELSE <<>>

\* the modules of the packages one level above the source directories
Folded ==
  Flatten([i \in 1 .. Len(manifest.dirs) |->
             IF source.vendored[i].type = "package"
             THEN Listed(source.vendored[i].exposed)
             ELSE <<>>])

\* C22: the synthetic manifest's exposed modules are the application's own,
\* flattened in order, followed in source-directory order by those of each
\* package manifest one level above a source directory; the application's
\* own modules are a prefix of the result.
C22_ExposedModules ==
  synth.done =>
    /\ synth.pkg.exposed = Listed(source.exposed) \o Folded
    /\ SubSeq(synth.pkg.exposed, 1, Len(Listed(source.exposed))) = Listed(source.exposed)

\* a categorized map of two modules was folded with two vendored packages
C22_Witness ==
  /\ synth.done
  /\ source.exposed.form = "map"
  /\ Len(Listed(source.exposed)) = 2
  /\ Len(manifest.dirs) = 2
  /\ \A i \in 1 .. 2 : /\ source.vendored[i].type = "package"
                       /\ Listed(source.vendored[i].exposed) # <<>>
  /\ source.vendored[1] # source.vendored[2]

\* C29: buildApplicationDocs leaves the manifest it is given as it was: the
\* four completed fields, the dependencies and the exposed modules have the
\* values they had before the call.
C29_ManifestUnchanged ==
  [][synth'.done => (manifest' = manifest /\ source' = source)]_vars

\* vendored modules were folded into an application that lists its own
C29_Witness ==
  /\ synth.done
  /\ source.exposed.form = "list"
  /\ source.exposed.value # <<>>
  /\ Folded # <<>>
  /\ Len(synth.pkg.exposed) > Len(source.exposed.value)

\* C25: at most one debounce timer is armed; this.timeout is non-null
\* exactly while a rebuild is pending (an event has arrived since the last
\* reaction); the field is null again while the reaction runs its build.
C25_OneTimer ==
  /\ hist.timers <= 1
  /\ timeout.armed <=> hist.timers = 1
  /\ timeout.armed <=> hist.first # ""
  /\ (pc = "building" /\ cur.by = "change") => ~timeout.armed

\* after one reaction a later event has armed a new timer
C25_Witness ==
  /\ variant = "ts"
  /\ hist.reactions = 1
  /\ hist.changes = 2
  /\ timeout.armed
  /\ hist.timers = 1

\* C27: every readme, manifest or docs message broadcast in a reaction
\* carries the author, project and version of the manifest held in memory,
\* so all messages of one cycle carry the same identity; and nothing is
\* broadcast while the manifest is null or its name has no "/".
C27_MessageIdentity ==
  \A c \in Clients :
    /\ ~CanSend(manifest) => sent[c] = <<>>
    /\ \A i \in DOMAIN sent[c] :
         /\ CanSend(manifest)
         /\ sent[c][i].id = Identity(manifest)
         /\ \A j \in DOMAIN sent[c] : sent[c][j].id = sent[c][i].id

\* a reload replaced a sendable manifest by one of another identity, and a
\* client was sent the manifest and the docs of that cycle
C27_Witness ==
  /\ hist.reloaded = "ok"
  /\ CanSend(hist.before)
  /\ CanSend(manifest)
  /\ Identity(hist.before) # Identity(manifest)
  /\ \E c \in Clients : TypesSeq(sent[c]) = <<"manifest", "docs">>

\* the run of the invoker named r
RunOf(r) == IF r = "npx" THEN tool.npx ELSE tool.direct

\* a version of the 0.19 family: 0.19.<patch>
InFamily(v) == Len(v) > 5 /\ SubSeq(v, 1, 5) = <<"0", ".", "1", "9", ".">>

\* C23, as stated: the invoker getElm returns is one whose version check
\* succeeded (launched, status 0, nothing on the diagnostic stream) and
\* reported a 0.19 version.
C23_ReturnedCheckSucceeded ==
  tool.returned # "none" =>
    /\ ~MediatedFails(RunOf(tool.returned))
    /\ InFamily(trim(RunOf(tool.returned).stdout))

\* C23: getElm returns the mediated launcher exactly when its version run
\* launched, exited with 0, wrote nothing to stderr and reported 0.19.x; it
\* returns the direct compiler only if the mediated run failed and the
\* direct run launched, exited with 0 and reported 0.19.x, whatever that
\* run wrote to stderr; in every other case the process exits non-zero.
C23_ElmLookup ==
  pc # "start" =>
    /\ (tool.returned = "npx") <=>
         (~MediatedFails(tool.npx) /\ InFamily(trim(tool.npx.stdout)))
    /\ (tool.returned = "direct") <=>
         /\ MediatedFails(tool.npx)
         /\ ~tool.direct.error
         /\ tool.direct.status = 0
         /\ InFamily(trim(tool.direct.stdout))
    /\ tool.returned # "none" =>
         /\ pc = "found"
         /\ tool.version = trim(RunOf(tool.returned).stdout)
         /\ InFamily(tool.version)
    /\ tool.returned = "none" => (pc = "exited" /\ exitStatus # 0)

\* the mediated run failed and the direct compiler was returned after a run
\* that wrote to stderr
C23_Witness ==
  /\ pc = "found"
  /\ tool.returned = "direct"
  /\ tool.npx.error
  /\ tool.direct.stderr = "text"

\* C24: make(filename) always ends the process with an exit status: 0
\* exactly when the build produced documentation, which is then in the file
\* unless the file is /dev/null; non-zero after an error report or an empty
\* result, and non-zero when no manifest could be loaded.
C24_MakeExits ==
  pc # "idle" =>
    /\ pc = "exited"
    /\ exitStatus = 0 <=>
         /\ IsDocs(lastBuild.value)
         /\ output.filename # "/dev/null" => output.written
    /\ output.written => (IsDocs(lastBuild.value) /\ output.filename # "/dev/null")
    /\ manifest = NullManifest => exitStatus # 0

\* the port named after a message type
PortOf(t) ==
  IF t = "readme" THEN <<"onReadme">>
  ELSE IF t = "manifest" THEN <<"onManifest">>
  ELSE IF t = "docs" THEN <<"onDocs">>
  ELSE <<>>

\* C30: the page forwards each frame to exactly the port of its type and to
\* no other, in the order received: the ports' deliveries are the frames'
\* own ports, one per readme, manifest or docs frame.
C30_RoutedByType ==
  page.ports =
    Flatten([i \in DOMAIN page.frames |->
               [j \in DOMAIN PortOf(page.frames[i]) |->
                  Delivery(PortOf(page.frames[i])[j], page.frames[i])]])

\* C28: the messages a connection handler sends reach the connecting
\* client only: every message a client holds was sent by the handler of its
\* own connection.
C28_SnapshotToConnectingOnly ==
  \A c \in Clients : \A i \in DOMAIN sent[c] : sent[c][i].cause = c

\* C26: while the manifest in memory has a name with "/", every change of a
\* source file or of the manifest is eventually followed by the docs
\* broadcast of a build started after it.
C26_EventuallyDocs ==
  ([]CanSend(manifest)) => [](hist.owed # "no" => <>(hist.owed = "no"))


====
